---------------------------- MODULE Spec2Model ----------------------------
(***************************************************************************)
(* A model of music-matcher: the acoustic fingerprinting pipeline          *)
(* (src/src/fingerprint.rs, src/src/audio.rs), the song table and its      *)
(* matcher (src/src/database.rs) and the two request handlers              *)
(* (src/src/main.rs).                                                      *)
(*                                                                         *)
(* Conventions.                                                            *)
(*  - An f64 similarity score is the quotient of two small naturals; it is *)
(*    kept as the exact fraction [num, den].  IEEE division is correctly   *)
(*    rounded, so two such quotients are equal (ordered) as f64 exactly    *)
(*    when the fractions are, as long as the denominators stay far below   *)
(*    2^26; 3.0/10.0 rounds to the literal 0.3.                            *)
(*  - A u32 landmark hash is kept as its two 16-bit halves [hi, lo]        *)
(*    (hi = bits 31..16, lo = bits 15..0).                                 *)
(*  - The FFT is a library call.  A clip's audio content is given by the   *)
(*    magnitude spectrum of each 1024-sample window of its preconditioned  *)
(*    signal: a sparse function from frequency bin to magnitude, in units  *)
(*    of 0.01; bins it does not list have magnitude 0.                     *)
(***************************************************************************)
EXTENDS Integers, Sequences, FiniteSets, TLC

VARIABLES
    build,          \* "debug" | "release": the profile the binary was built with
    songs,          \* the rows of table songs, in scan (rowid) order
    next_id,        \* the AUTOINCREMENT counter of table songs
    request,        \* the request the server handled last
    response,       \* the answer to it
    query,          \* find_match / find_all_matches: the query fingerprint
    best_match,     \* the result of find_match
    matches,        \* the result of find_all_matches
    fingerprint1,   \* calculate_similarity: first argument
    fingerprint2,   \* calculate_similarity: second argument
    similarity,     \* its results
    peaks,          \* generate_hashes: its argument
    hashes,         \* its result
    samples,        \* compute_spectrogram: its argument
    spectrogram     \* its result

vars == <<build, songs, next_id, request, response, query, best_match, matches,
          fingerprint1, fingerprint2, similarity, peaks, hashes, samples, spectrogram>>

\* a variable not yet computed, and one holding the result v
Idle == [state |-> "idle"]
Done(v) == [state |-> "done", value |-> v]

-----------------------------------------------------------------------------
(* Program constants                                                       *)

SAMPLE_RATE == 11025
SOURCE_RATE == 44100
WINDOW_SIZE == 1024
HOP_SIZE == 512
FREQ_BINS == 512
MAX_PEAKS == 200
PAIR_FANOUT == 5
MAX_TIME_DIFF == 10
\* the peak floor 0.1, in units of 0.01
PEAK_FLOOR == 10
\* the acceptance threshold 0.3 of the matcher
THRESHOLD == [num |-> 3, den |-> 10]

-----------------------------------------------------------------------------
(* f64 scores as exact fractions                                           *)

Zero == [num |-> 0, den |-> 1]
RatGt(a, b) == a.num * b.den > b.num * a.den
RatEq(a, b) == a.num * b.den = b.num * a.den
RatGe(a, b) == a.num * b.den >= b.num * a.den

-----------------------------------------------------------------------------
(* u32 arithmetic on 16-bit halves                                         *)

Half == 256 * 256

RECURSIVE BitOr(_, _)
BitOr(a, b) ==
    IF a = 0 THEN b
    ELSE IF b = 0 THEN a
    ELSE (IF (a % 2 = 1) \/ (b % 2 = 1) THEN 1 ELSE 0) + 2 * BitOr(a \div 2, b \div 2)

\* x as u32, x a natural below 2^31
U32(x) == [hi |-> (x \div Half) % Half, lo |-> x % Half]
\* (x as u32) << 16 and << 8, for x below 2^16: the bits shifted past bit 31 are lost
Shl16(x) == [hi |-> x % Half, lo |-> 0]
Shl8(x) == [hi |-> (x \div 256) % Half, lo |-> (x % 256) * 256]
Or32(a, b) == [hi |-> BitOr(a.hi, b.hi), lo |-> BitOr(a.lo, b.lo)]
\* (d as usize) as u32 for a wrapped difference d in -65535..-1: 2^32 + d
WrapU32(d) == [hi |-> Half - 1, lo |-> Half + d]

-----------------------------------------------------------------------------
(* fingerprint.rs: AudioFingerprint and calculate_similarity               *)

SeqRange(s) == {s[i] : i \in DOMAIN s}

\* duration: samples.len() as f64 / 44100.0
AudioFingerprint(hs, len) == [hashes |-> hs, duration |-> [num |-> len, den |-> SOURCE_RATE]]

\* mutant: the hash lists are compared as lists, repeated hashes counted
calculate_similarity_no_dedup(fp1, fp2) ==
    IF fp1.hashes = <<>> \/ fp2.hashes = <<>>
    THEN Zero
    ELSE LET set2 == SeqRange(fp2.hashes)
             intersection == Cardinality({i \in DOMAIN fp1.hashes : fp1.hashes[i] \in set2})
             union == Len(fp1.hashes) + Len(fp2.hashes) - intersection
         IN  IF union = 0 THEN Zero ELSE [num |-> intersection, den |-> union]

calculate_similarity(fp1, fp2) ==
    IF fp1.hashes = <<>> \/ fp2.hashes = <<>>
    THEN Zero
    ELSE LET set1 == SeqRange(fp1.hashes)
             set2 == SeqRange(fp2.hashes)
             intersection == Cardinality(set1 \cap set2)
             union == Cardinality(set1 \cup set2)
         IN  IF union = 0 THEN Zero ELSE [num |-> intersection, den |-> union]

-----------------------------------------------------------------------------
(* audio.rs: decode_audio, normalize_audio, downsample                     *)
(*                                                                         *)
(* A clip is [wav, len, content]: whether its bytes are a readable WAV     *)
(* file, the number of samples it holds, and its content: for each start   *)
(* index k * HOP_SIZE of its preconditioned (normalized, downsampled)      *)
(* signal, the magnitude spectrum of the Hann-windowed WINDOW_SIZE samples *)
(* from there, as the FFT returns it.                                      *)

Ok(v) == [ok |-> TRUE, value |-> v]
Err(e) == [ok |-> FALSE, error |-> e]

decode_audio(clip) ==
    IF clip.wav
    THEN Ok([len |-> clip.len, content |-> clip.content])
    ELSE Err("Failed to read WAV file")

\* normalize_audio divides every sample by the peak amplitude: the length stays
normalize_audio(s) == s

\* the ratio is 44100 / 11025 = 4.0 in f32, and len / 4.0 truncates to len \div 4
downsample(s, original_rate, target_rate) ==
    IF original_rate <= target_rate THEN s
    ELSE LET ratio == original_rate \div target_rate
             new_len == s.len \div ratio
         IN  [len |-> new_len, content |-> s.content]

-----------------------------------------------------------------------------
(* fingerprint.rs: compute_spectrogram                                     *)

ZeroFrame == [b \in {} |-> 0]
\* the magnitude spectrum of samples[start .. start + WINDOW_SIZE]
Spectrum(content, start) == IF start \in DOMAIN content THEN content[start] ELSE ZeroFrame

SaturatingSub(a, b) == IF a >= b THEN a - b ELSE 0

\* The matrix is FREQ_BINS x num_frames zeros; the loop fills column frame_idx for
\* every start of (0..len.saturating_sub(WINDOW_SIZE)).step_by(HOP_SIZE), that is
\* for every frame_idx with frame_idx * HOP_SIZE < len.saturating_sub(WINDOW_SIZE).
\* Column frame_idx of the matrix is element frame_idx + 1 of the sequence.
compute_spectrogram(s) ==
    LET num_frames == SaturatingSub(s.len, WINDOW_SIZE) \div HOP_SIZE + 1
    IN  [frame \in 1..num_frames |->
            IF (frame - 1) * HOP_SIZE < SaturatingSub(s.len, WINDOW_SIZE)
                    /\ (frame - 1) < num_frames
            THEN Spectrum(s.content, (frame - 1) * HOP_SIZE)
            ELSE ZeroFrame]

-----------------------------------------------------------------------------
(* fingerprint.rs: find_spectral_peaks                                     *)

\* spectrogram[[f, t]]
Mag(sg, f, t) == IF f \in DOMAIN sg[t + 1] THEN sg[t + 1][f] ELSE 0

SpectralPeak(f, t, m) == [freq_bin |-> f, time_frame |-> t, magnitude |-> m]

IsPeak(sg, f, t) ==
    LET current == Mag(sg, f, t)
    IN  /\ current > PEAK_FLOOR
        /\ current > Mag(sg, f - 1, t)
        /\ current > Mag(sg, f + 1, t)
        /\ current > Mag(sg, f, t - 1)
        /\ current > Mag(sg, f, t + 1)

\* The cells the two loops accept, t in 1..time_frames - 1 and f in 1..freq_bins - 1
\* (both ends exclusive).  A cell of magnitude 0 fails the floor, so only the
\* cells a frame lists are looked at.
PeakCells(sg) ==
    {<<t, f>> \in UNION {{<<t, f>> : f \in DOMAIN sg[t + 1]} : t \in 1..(Len(sg) - 2)} :
        f >= 1 /\ f <= FREQ_BINS - 2 /\ IsPeak(sg, f, t)}

\* the peaks in the order the loops push them: by t, then by f
RECURSIVE PushOrder(_, _)
PushOrder(sg, cells) ==
    IF cells = {} THEN <<>>
    ELSE LET c == CHOOSE x \in cells :
                      \A y \in cells : x[1] < y[1] \/ (x[1] = y[1] /\ x[2] <= y[2])
         IN  <<SpectralPeak(c[2], c[1], Mag(sg, c[2], c[1]))>> \o PushOrder(sg, cells \ {c})

\* peaks.sort_by(b.magnitude.partial_cmp(a.magnitude)): stable, magnitude descending
RECURSIVE InsertPeak(_, _)
InsertPeak(sorted, p) ==
    IF sorted = <<>> THEN <<p>>
    ELSE IF p.magnitude > sorted[1].magnitude THEN <<p>> \o sorted
    ELSE <<sorted[1]>> \o InsertPeak(Tail(sorted), p)

RECURSIVE SortPeaks(_, _)
SortPeaks(s, acc) ==
    IF s = <<>> THEN acc ELSE SortPeaks(Tail(s), InsertPeak(acc, s[1]))

Truncate(s, n) == IF Len(s) <= n THEN s ELSE SubSeq(s, 1, n)

find_spectral_peaks(sg) ==
    Truncate(SortPeaks(PushOrder(sg, PeakCells(sg)), <<>>), MAX_PEAKS)

-----------------------------------------------------------------------------
(* fingerprint.rs: generate_hashes                                         *)

\* mutant: freq2 is cut to its low 8 bits before it is shifted
pack_truncating(freq1, freq2, time_diff) ==
    Or32(Or32(Shl16(freq1), Shl8(freq2 % 256)), time_diff)

\* (freq1 << 16) | (freq2 << 8) | time_diff
pack(freq1, freq2, time_diff) == Or32(Or32(Shl16(freq1), Shl8(freq2)), time_diff)

Min(a, b) == IF a <= b THEN a ELSE b

Panicked == [ok |-> FALSE, error |-> "panic: attempt to subtract with overflow"]

\* The two loops from the pair (i, j) on: peak1 = peaks[i], and peak2 runs over
\* skip(i + 1).take(5).  peak2.time_frame - peak1.time_frame is a usize
\* subtraction: when peak2 is the earlier frame it panics in a build with
\* overflow checks ("debug") and wraps in one without ("release"), where
\* `as u32` keeps the low 32 bits of the wrapped difference.
RECURSIVE HashLoop(_, _, _, _, _)
HashLoop(ps, i, j, acc, profile) ==
    IF i > Len(ps) THEN Ok(acc)
    ELSE IF j > Min(i + PAIR_FANOUT, Len(ps)) THEN HashLoop(ps, i + 1, i + 2, acc, profile)
    ELSE LET peak1 == ps[i]
             peak2 == ps[j]
         IN  IF peak2.time_frame <= peak1.time_frame + MAX_TIME_DIFF
             THEN IF peak2.time_frame < peak1.time_frame
                  THEN IF profile = "debug"
                       THEN Panicked
                       ELSE HashLoop(ps, i, j + 1,
                                Append(acc, pack(peak1.freq_bin, peak2.freq_bin,
                                                 WrapU32(peak2.time_frame - peak1.time_frame))),
                                profile)
                  ELSE HashLoop(ps, i, j + 1,
                           Append(acc, pack(peak1.freq_bin, peak2.freq_bin,
                                            U32(peak2.time_frame - peak1.time_frame))),
                           profile)
             ELSE HashLoop(ps, i, j + 1, acc, profile)

generate_hashes(ps, profile) == HashLoop(ps, 1, 2, <<>>, profile)

-----------------------------------------------------------------------------
(* fingerprint.rs: generate_fingerprint                                    *)

generate_fingerprint(s, profile) ==
    IF s.len = 0
    THEN Err("Empty audio samples")
    ELSE LET normalized == normalize_audio(s)
             downsampled == downsample(normalized, SOURCE_RATE, SAMPLE_RATE)
             sg == compute_spectrogram(downsampled)
             pks == find_spectral_peaks(sg)
             hs == generate_hashes(pks, profile)
         IN  IF hs.ok THEN Ok(AudioFingerprint(hs.value, s.len)) ELSE hs


-----------------------------------------------------------------------------
(* database.rs: the fingerprint_data column.  serde_json text is kept as   *)
(* its sequence of tokens.  The parser accepts the text the serializer     *)
(* writes and fails on anything else: a truncated text, a missing field, a *)
(* hash that is no u32.                                                    *)

Punct(c) == [kind |-> "punct", text |-> c, value |-> Zero]
Key(k) == [kind |-> "string", text |-> k, value |-> Zero]
IntTok(v) == [kind |-> "integer", text |-> "", value |-> v]
FloatTok(v) == [kind |-> "float", text |-> "", value |-> v]

RECURSIVE JoinInts(_)
JoinInts(hs) ==
    IF hs = <<>> THEN <<>>
    ELSE IF Len(hs) = 1 THEN <<IntTok(hs[1])>>
    ELSE <<IntTok(hs[1]), Punct(",")>> \o JoinInts(Tail(hs))

to_string(fp) ==
    <<Punct("{"), Key("hashes"), Punct(":"), Punct("[")>>
    \o JoinInts(fp.hashes)
    \o <<Punct("]"), Punct(","), Key("duration"), Punct(":"), FloatTok(fp.duration), Punct("}")>>

IsTok(s, i, k, c) == i <= Len(s) /\ s[i].kind = k /\ s[i].text = c
\* mutant: any integer is taken for a u32
IsU32_any_integer(s, i) == i <= Len(s) /\ s[i].kind = "integer"

IsU32(s, i) ==
    /\ i <= Len(s)
    /\ s[i].kind = "integer"
    /\ s[i].value.hi \in 0..(Half - 1)
    /\ s[i].value.lo \in 0..(Half - 1)

ParseErr == [ok |-> FALSE, next |-> 0, items |-> <<>>]

\* the elements of the array whose first element is at token i
RECURSIVE ParseElems(_, _, _)
ParseElems(s, i, acc) ==
    IF ~IsU32(s, i) THEN ParseErr
    ELSE IF IsTok(s, i + 1, "punct", ",") THEN ParseElems(s, i + 2, Append(acc, s[i].value))
    ELSE IF IsTok(s, i + 1, "punct", "]")
         THEN [ok |-> TRUE, next |-> i + 2, items |-> Append(acc, s[i].value)]
    ELSE ParseErr

ParseArray(s, i) ==
    IF ~IsTok(s, i, "punct", "[") THEN ParseErr
    ELSE IF IsTok(s, i + 1, "punct", "]") THEN [ok |-> TRUE, next |-> i + 2, items |-> <<>>]
    ELSE ParseElems(s, i + 1, <<>>)

\* mutant: the duration field is read as an integer, the text of an f64 refused
from_str_integer_duration(s) ==
    IF ~(IsTok(s, 1, "punct", "{") /\ IsTok(s, 2, "string", "hashes") /\ IsTok(s, 3, "punct", ":"))
    THEN [ok |-> FALSE]
    ELSE LET arr == ParseArray(s, 4)
             j == arr.next
         IN  IF /\ arr.ok
                /\ IsTok(s, j, "punct", ",")
                /\ IsTok(s, j + 1, "string", "duration")
                /\ IsTok(s, j + 2, "punct", ":")
                /\ j + 3 <= Len(s)
                /\ s[j + 3].kind = "integer"
                /\ IsTok(s, j + 4, "punct", "}")
                /\ Len(s) = j + 4
             THEN [ok |-> TRUE,
                   value |-> [hashes |-> arr.items, duration |-> s[j + 3].value]]
             ELSE [ok |-> FALSE]

\* serde_json::from_str::<AudioFingerprint>
from_str(s) ==
    IF ~(IsTok(s, 1, "punct", "{") /\ IsTok(s, 2, "string", "hashes") /\ IsTok(s, 3, "punct", ":"))
    THEN [ok |-> FALSE]
    ELSE LET arr == ParseArray(s, 4)
             j == arr.next
         IN  IF /\ arr.ok
                /\ IsTok(s, j, "punct", ",")
                /\ IsTok(s, j + 1, "string", "duration")
                /\ IsTok(s, j + 2, "punct", ":")
                /\ j + 3 <= Len(s)
                /\ s[j + 3].kind \in {"float", "integer"}
                /\ IsTok(s, j + 4, "punct", "}")
                /\ Len(s) = j + 4
             THEN [ok |-> TRUE,
                   value |-> [hashes |-> arr.items, duration |-> s[j + 3].value]]
             ELSE [ok |-> FALSE]

-----------------------------------------------------------------------------
(* database.rs: table songs and the matcher                                *)

SongRecord(id, title, artist, fp_json, duration) ==
    [id |-> id, title |-> title, artist |-> artist,
     fingerprint_data |-> fp_json, duration |-> duration]

None == [some |-> FALSE]
Some(v) == [some |-> TRUE, value |-> v]
Match(row, sim) ==
    [id |-> row.id, title |-> row.title, artist |-> row.artist, similarity |-> sim]

\* the loop of find_match from row i on
RECURSIVE FindMatchLoop(_, _, _, _, _)
FindMatchLoop(rows, i, q, best, best_similarity) ==
    IF i > Len(rows) THEN best
    ELSE LET stored == from_str(rows[i].fingerprint_data)
         IN  IF stored.ok
             THEN LET sim == calculate_similarity(q, stored.value)
                  IN  IF RatGt(sim, best_similarity) /\ RatGt(sim, THRESHOLD)
                      THEN FindMatchLoop(rows, i + 1, q, Some(Match(rows[i], sim)), sim)
                      ELSE FindMatchLoop(rows, i + 1, q, best, best_similarity)
             ELSE FindMatchLoop(rows, i + 1, q, best, best_similarity)

\* mutant: a later row of equal score replaces the best match (>= for >)
RECURSIVE FindMatchLoop_ge(_, _, _, _, _)
FindMatchLoop_ge(rows, i, q, best, best_similarity) ==
    IF i > Len(rows) THEN best
    ELSE LET stored == from_str(rows[i].fingerprint_data)
         IN  IF stored.ok
             THEN LET sim == calculate_similarity(q, stored.value)
                  IN  IF RatGe(sim, best_similarity) /\ RatGt(sim, THRESHOLD)
                      THEN FindMatchLoop_ge(rows, i + 1, q, Some(Match(rows[i], sim)), sim)
                      ELSE FindMatchLoop_ge(rows, i + 1, q, best, best_similarity)
             ELSE FindMatchLoop_ge(rows, i + 1, q, best, best_similarity)

\* the mutant's use
find_match_ge(rows, q) == FindMatchLoop_ge(rows, 1, q, None, Zero)

find_match(rows, q) == FindMatchLoop(rows, 1, q, None, Zero)

\* the loop of find_all_matches from row i on
RECURSIVE FindAllLoop(_, _, _, _)
FindAllLoop(rows, i, q, acc) ==
    IF i > Len(rows) THEN acc
    ELSE LET stored == from_str(rows[i].fingerprint_data)
         IN  IF stored.ok
             THEN LET sim == calculate_similarity(q, stored.value)
                  IN  IF RatGt(sim, THRESHOLD)
                      THEN FindAllLoop(rows, i + 1, q, Append(acc, Match(rows[i], sim)))
                      ELSE FindAllLoop(rows, i + 1, q, acc)
             ELSE FindAllLoop(rows, i + 1, q, acc)

\* slice::sort_by is a stable sort; the comparator orders by similarity descending.
\* x goes after every element that does not compare greater than it.
\* mutant: an unstable sort, x goes before the elements equal to it
RECURSIVE InsertDesc_unstable(_, _)
InsertDesc_unstable(sorted, x) ==
    IF sorted = <<>> THEN <<x>>
    ELSE IF RatGe(x.similarity, sorted[1].similarity) THEN <<x>> \o sorted
    ELSE <<sorted[1]>> \o InsertDesc_unstable(Tail(sorted), x)

RECURSIVE InsertDesc(_, _)
InsertDesc(sorted, x) ==
    IF sorted = <<>> THEN <<x>>
    ELSE IF RatGt(x.similarity, sorted[1].similarity) THEN <<x>> \o sorted
    ELSE <<sorted[1]>> \o InsertDesc(Tail(sorted), x)

RECURSIVE SortDesc(_, _)
SortDesc(s, acc) ==
    IF s = <<>> THEN acc ELSE SortDesc(Tail(s), InsertDesc(acc, s[1]))

find_all_matches(rows, q) == SortDesc(FindAllLoop(rows, 1, q, <<>>), <<>>)

-----------------------------------------------------------------------------
(* Specification SpecSimilarity: calculate_similarity applied to every     *)
(* pair of hash lists of at most MaxHashes hashes over NumHashValues       *)
(* values.                                                                 *)

MaxHashes == 3
NumHashValues == 3
MaxSongs == 3

TenSeconds == 10 * SOURCE_RATE

ServerIdle ==
    /\ build = "release" /\ songs = <<>> /\ next_id = 1
    /\ request = Idle /\ response = Idle
MatcherIdle == query = Idle /\ best_match = Idle /\ matches = Idle
SimilarityIdle == fingerprint1 = Idle /\ fingerprint2 = Idle /\ similarity = Idle
HasherIdle == peaks = Idle /\ hashes = Idle
SpectrogramIdle == samples = Idle /\ spectrogram = Idle

HashLists ==
    UNION {[1..n -> {U32(k) : k \in 1..NumHashValues}] : n \in 0..MaxHashes}
Fingerprints == {AudioFingerprint(hs, TenSeconds) : hs \in HashLists}

InitSimilarity ==
    /\ fingerprint1 \in Fingerprints
    /\ fingerprint2 \in Fingerprints
    /\ similarity = Idle
    /\ ServerIdle /\ MatcherIdle /\ HasherIdle /\ SpectrogramIdle

CalculateSimilarity ==
    /\ similarity = Idle
    /\ similarity' = Done([s12 |-> calculate_similarity(fingerprint1, fingerprint2),
                           s21 |-> calculate_similarity(fingerprint2, fingerprint1),
                           s11 |-> calculate_similarity(fingerprint1, fingerprint1)])
    /\ UNCHANGED <<build, songs, next_id, request, response, query, best_match, matches,
                   fingerprint1, fingerprint2, peaks, hashes, samples, spectrogram>>

NextSimilarity == CalculateSimilarity
SpecSimilarity == InitSimilarity /\ [][NextSimilarity]_vars

\* C6: calculate_similarity returns 0.0 when either hash list is empty and
\* otherwise the Jaccard coefficient of the two hash sets, duplicates collapsed;
\* so the score lies in [0, 1], is symmetric, is 1 for a fingerprint with a hash
\* against itself, and is 0 for disjoint hash sets.
SimilarityIsJaccard ==
    similarity # Idle =>
        LET A == SeqRange(fingerprint1.hashes)
            B == SeqRange(fingerprint2.hashes)
            s == similarity.value.s12
        IN  /\ s.den > 0 /\ 0 <= s.num /\ s.num <= s.den
            /\ (A = {} \/ B = {}) => s.num = 0
            /\ (A # {} /\ B # {}) =>
                   s.num * Cardinality(A \cup B) = Cardinality(A \cap B) * s.den
            /\ RatEq(s, similarity.value.s21)
            /\ A # {} => similarity.value.s11.num = similarity.value.s11.den
            /\ A \cap B = {} => s.num = 0

\* a pair with a repeated hash, a common hash and a hash not in common was scored
SimilarityWitness ==
    /\ similarity # Idle
    /\ Len(fingerprint1.hashes) > Cardinality(SeqRange(fingerprint1.hashes))
    /\ 0 < similarity.value.s12.num
    /\ similarity.value.s12.num < similarity.value.s12.den

-----------------------------------------------------------------------------
(* Specification SpecMatcher: find_match and find_all_matches applied to   *)
(* every table of at most MaxSongs rows drawn from StoredData, for every   *)
(* query of Queries.  Against the query of hashes 1..3 the stored texts    *)
(* score 1, 1/2, 1/3, 3/10 (the threshold itself), 0 and 0; two texts do   *)
(* not deserialize.  The other queries score 1/4, 2/3, 3/5, ... on them.   *)

HashRun(a, b) == [i \in 1..(b - a + 1) |-> U32(a + i - 1)]

ValidData ==
    <<to_string(AudioFingerprint(HashRun(1, 3), TenSeconds)),
      to_string(AudioFingerprint(HashRun(1, 6), TenSeconds)),
      to_string(AudioFingerprint(HashRun(1, 9), TenSeconds)),
      to_string(AudioFingerprint(HashRun(1, 10), TenSeconds)),
      to_string(AudioFingerprint(HashRun(20, 22), TenSeconds)),
      to_string(AudioFingerprint(<<>>, TenSeconds))>>

\* a text cut short, and a text holding a number that is no u32 (2^32)
CorruptData ==
    <<SubSeq(ValidData[1], 1, 7),
      to_string(AudioFingerprint(<<U32(1), [hi |-> Half, lo |-> 0], U32(3)>>, TenSeconds))>>

StoredData == ValidData \o CorruptData

Queries ==
    {AudioFingerprint(HashRun(1, 3), TenSeconds),
     AudioFingerprint(HashRun(4, 9), TenSeconds),
     AudioFingerprint(HashRun(3, 3), TenSeconds),
     AudioFingerprint(<<>>, TenSeconds)}

TITLES == <<"T", "U", "V", "W", "X">>
ARTISTS == <<"A", "B", "C">>
TitleOf(i) == TITLES[((i - 1) % Len(TITLES)) + 1]
ArtistOf(i) == ARTISTS[((i - 1) % Len(ARTISTS)) + 1]

\* the table whose i-th row stores the text StoredData[c[i]]
Table(c) ==
    [i \in DOMAIN c |->
        SongRecord(i, TitleOf(i), ArtistOf(i), StoredData[c[i]],
                   [num |-> TenSeconds, den |-> SOURCE_RATE])]

Tables == {Table(c) : c \in UNION {[1..n -> DOMAIN StoredData] : n \in 0..MaxSongs}}

InitMatcher ==
    /\ songs \in Tables
    /\ next_id = Len(songs) + 1
    /\ query \in Queries
    /\ best_match = Idle /\ matches = Idle
    /\ build = "release" /\ request = Idle /\ response = Idle
    /\ SimilarityIdle /\ HasherIdle /\ SpectrogramIdle

FindMatch ==
    /\ best_match = Idle
    /\ best_match' = Done(find_match(songs, query))
    /\ UNCHANGED <<build, songs, next_id, request, response, query, matches,
                   fingerprint1, fingerprint2, similarity, peaks, hashes, samples, spectrogram>>

FindAllMatches ==
    /\ matches = Idle
    /\ matches' = Done(find_all_matches(songs, query))
    /\ UNCHANGED <<build, songs, next_id, request, response, query, best_match,
                   fingerprint1, fingerprint2, similarity, peaks, hashes, samples, spectrogram>>

NextMatcher == FindMatch \/ FindAllMatches
SpecMatcher == InitMatcher /\ [][NextMatcher]_vars

IsCorrupt(data) == \E k \in DOMAIN CorruptData : data = CorruptData[k]
\* the rows a scan scores, and the score of each
Scanned == {i \in DOMAIN songs : ~IsCorrupt(songs[i].fingerprint_data)}
ScoreOf(i) == calculate_similarity(query, from_str(songs[i].fingerprint_data).value)
IsRow(m, i) ==
    /\ m.id = songs[i].id /\ m.title = songs[i].title /\ m.artist = songs[i].artist
    /\ RatEq(m.similarity, ScoreOf(i))

\* C2: find_match returns none exactly when every scanned entry scores <= 0.3;
\* otherwise it returns the entry of maximum score, the earliest scanned one among
\* those that share the maximum, together with that score.
FindBestReturnsEarliestMaximum ==
    best_match # Idle =>
        /\ best_match.value = None <=> \A i \in Scanned : ~RatGt(ScoreOf(i), THRESHOLD)
        /\ best_match.value # None =>
               \E i \in Scanned :
                   /\ IsRow(best_match.value.value, i)
                   /\ \A j \in Scanned : RatGe(ScoreOf(i), ScoreOf(j))
                   /\ \A j \in Scanned : RatEq(ScoreOf(i), ScoreOf(j)) => i <= j

\* a match was returned from a table where a later row ties with it and another
\* scanned row scores less
FindBestWitness ==
    /\ best_match # Idle /\ best_match.value # None
    /\ \E i, j, k \in Scanned :
           /\ i < j /\ best_match.value.value.id = songs[i].id
           /\ RatEq(ScoreOf(i), ScoreOf(j))
           /\ RatGt(ScoreOf(i), ScoreOf(k))

PositionOf(id) == CHOOSE i \in DOMAIN songs : songs[i].id = id

\* C3: find_all_matches returns exactly the scanned entries that score > 0.3, by
\* score descending, entries of equal score in scan order.
FindAllSortedStable ==
    matches # Idle =>
        /\ \A k \in DOMAIN matches.value :
               \E i \in Scanned : IsRow(matches.value[k], i) /\ RatGt(ScoreOf(i), THRESHOLD)
        /\ \A i \in Scanned :
               RatGt(ScoreOf(i), THRESHOLD) =>
                   Cardinality({k \in DOMAIN matches.value : matches.value[k].id = songs[i].id}) = 1
        /\ \A k, l \in DOMAIN matches.value :
               k < l =>
                   /\ RatGe(matches.value[k].similarity, matches.value[l].similarity)
                   /\ RatEq(matches.value[k].similarity, matches.value[l].similarity)
                          => PositionOf(matches.value[k].id) < PositionOf(matches.value[l].id)

\* a result with two entries of equal score after one of a greater score that was
\* scanned after them, from a table with a row at or under the threshold
FindAllWitness ==
    /\ matches # Idle /\ Len(matches.value) >= 3
    /\ \E k \in 1..(Len(matches.value) - 2) :
           /\ RatGt(matches.value[k].similarity, matches.value[k + 1].similarity)
           /\ RatEq(matches.value[k + 1].similarity, matches.value[k + 2].similarity)
           /\ PositionOf(matches.value[k].id) > PositionOf(matches.value[k + 2].id)

\* the table without the rows whose text does not deserialize
WithoutCorrupt == SelectSeq(songs, LAMBDA r : ~IsCorrupt(r.fingerprint_data))

\* C7: a row whose stored fingerprint does not deserialize is skipped by both
\* scans: the query yields a result, the row is not in it, and the result is the
\* one the table without that row gives.
CorruptEntriesSkipped ==
    /\ best_match # Idle =>
           /\ best_match.value = find_match(WithoutCorrupt, query)
           /\ best_match.value \in {None} \cup {Some(Match(songs[i], ScoreOf(i))) : i \in Scanned}
    /\ matches # Idle =>
           /\ matches.value = find_all_matches(WithoutCorrupt, query)
           /\ \A k \in DOMAIN matches.value : \E i \in Scanned : matches.value[k].id = songs[i].id

\* both scans ran over a table holding a corrupt row before a matching row
CorruptWitness ==
    /\ best_match # Idle /\ best_match.value # None /\ matches # Idle /\ matches.value # <<>>
    /\ \E i, j \in DOMAIN songs :
           /\ i < j /\ IsCorrupt(songs[i].fingerprint_data)
           /\ j \in Scanned /\ best_match.value.value.id = songs[j].id

-----------------------------------------------------------------------------
(* Specification SpecHasher: generate_hashes applied, in either build      *)
(* profile, to lists of retained peaks.  A list is a set of cells of       *)
(* CellPool (no two of them neighbours, as two strict local maxima cannot  *)
(* be) ordered by a ranking of their magnitudes.                           *)

MaxPeaks == 7

\* <<freq_bin, time_frame>>
CellPool ==
    <<<<2, 3>>, <<256, 5>>, <<255, 16>>, <<300, 13>>, <<301, 5>>, <<7, 9>>, <<510, 1>>,
      <<1, 7>>, <<100, 20>>>>

PoolSize == Min(MaxPeaks, Len(CellPool))

\* the rank of cell k under ranking r: a permutation of 1..10, as 11 is prime
Rankings == {1, 3, 7, 10}
Rank(r, k) == (r * k) % 11

RECURSIVE ByRank(_, _)
ByRank(r, cellset) ==
    IF cellset = {} THEN <<>>
    ELSE LET k == CHOOSE x \in cellset : \A y \in cellset : Rank(r, x) >= Rank(r, y)
         IN  <<SpectralPeak(CellPool[k][1], CellPool[k][2], PEAK_FLOOR + Rank(r, k))>>
             \o ByRank(r, cellset \ {k})

PeakLists == {ByRank(r, c) : r \in Rankings, c \in SUBSET (1..PoolSize)}

Builds == {"debug", "release"}

InitHasher ==
    /\ build \in Builds
    /\ peaks \in PeakLists
    /\ hashes = Idle
    /\ songs = <<>> /\ next_id = 1 /\ request = Idle /\ response = Idle
    /\ MatcherIdle /\ SimilarityIdle /\ SpectrogramIdle

GenerateHashes ==
    /\ hashes = Idle
    /\ hashes' = Done(generate_hashes(peaks, build))
    /\ UNCHANGED <<build, songs, next_id, request, response, query, best_match, matches,
                   fingerprint1, fingerprint2, similarity, peaks, samples, spectrogram>>

NextHasher == GenerateHashes
SpecHasher == InitHasher /\ [][NextHasher]_vars

\* the pairs (P_i, P_j), j in i+1..i+5, in the order generate_hashes visits them
PairsFrom(i) == [d \in 1..(Min(i + PAIR_FANOUT, Len(peaks)) - i) |-> <<i, i + d>>]
RECURSIVE PairsUpTo(_)
PairsUpTo(i) == IF i = 0 THEN <<>> ELSE PairsUpTo(i - 1) \o PairsFrom(i)
Pairs == PairsUpTo(Len(peaks))
DeltaT(pr) == peaks[pr[2]].time_frame - peaks[pr[1]].time_frame

\* C8: generate_hashes emits a hash for a pair only if 0 <= dt <= 10; a pair with
\* dt < 0 is dropped, producing no hash and no failure.
HashPairWindow ==
    hashes # Idle =>
        /\ hashes.value.ok
        /\ Len(hashes.value.value) =
               Cardinality({k \in DOMAIN Pairs :
                               0 <= DeltaT(Pairs[k]) /\ DeltaT(Pairs[k]) <= MAX_TIME_DIFF})

\* the pairs that pass the test of the code, peak2.time_frame <= peak1.time_frame + 10
Passing == SelectSeq(Pairs, LAMBDA pr : DeltaT(pr) <= MAX_TIME_DIFF)

\* C9 as amended: the hash of a pair with dt in 0..10 has bits[7:0] = dt, bits[15:8]
\* = the low 8 bits of freq2, and bits[31:16] = freq1 | (freq2 >> 8): bit 8 of freq2
\* is or-ed into bit 0 of the freq1 field, which it raises by one when freq1 is even
\* and freq2 >= 256.
HashBitLayout ==
    (hashes # Idle /\ hashes.value.ok) =>
        /\ Len(hashes.value.value) = Len(Passing)
        /\ \A k \in DOMAIN Passing :
               LET freq1 == peaks[Passing[k][1]].freq_bin
                   freq2 == peaks[Passing[k][2]].freq_bin
                   h == hashes.value.value[k]
               IN  DeltaT(Passing[k]) >= 0 =>
                       /\ h.lo % 256 = DeltaT(Passing[k])
                       /\ h.lo \div 256 = freq2 % 256
                       /\ h.hi = freq1 + (IF freq1 % 2 = 0 /\ freq2 >= 256 THEN 1 ELSE 0)

\* a hash was emitted for a pair with dt in 0..10, an even freq1 and freq2 >= 256
HashBitLayoutWitness ==
    /\ hashes # Idle /\ hashes.value.ok
    /\ \E k \in DOMAIN Passing :
           /\ DeltaT(Passing[k]) >= 0
           /\ peaks[Passing[k][1]].freq_bin % 2 = 0
           /\ peaks[Passing[k][2]].freq_bin >= 256
           /\ Len(peaks) > PAIR_FANOUT + 1

\* C9: bits[31:16] of the hash equal freq1, bits[15:8] the low 8 bits of freq2 and
\* bits[7:0] equal dt; the freq2 field never alters the freq1 field.
HashFieldsDisjoint ==
    (hashes # Idle /\ hashes.value.ok) =>
        \A k \in DOMAIN Passing :
            LET h == hashes.value.value[k]
            IN  (k <= Len(hashes.value.value) /\ DeltaT(Passing[k]) >= 0) =>
                    /\ h.lo % 256 = DeltaT(Passing[k])
                    /\ h.lo \div 256 = peaks[Passing[k][2]].freq_bin % 256
                    /\ h.hi = peaks[Passing[k][1]].freq_bin

-----------------------------------------------------------------------------
(* Specification SpecSpectrogram: compute_spectrogram applied to every     *)
(* input of at most WINDOW_SIZE + MaxHops * HOP_SIZE samples, for a signal *)
(* whose windows all differ and for a silent one.                          *)

MaxHops == 3

\* window k holds a single tone, of bin 10 + k and magnitude 50 + k
Sweep == [start \in {k * HOP_SIZE : k \in 0..(MaxHops + 2)} |->
             [b \in {10 + start \div HOP_SIZE} |-> 50 + start \div HOP_SIZE]]
Silence == [start \in {} |-> ZeroFrame]

InitSpectrogram ==
    /\ samples \in {[len |-> n, content |-> c] :
                       n \in 0..(WINDOW_SIZE + MaxHops * HOP_SIZE), c \in {Sweep, Silence}}
    /\ spectrogram = Idle
    /\ ServerIdle /\ MatcherIdle /\ SimilarityIdle /\ HasherIdle

ComputeSpectrogram ==
    /\ spectrogram = Idle
    /\ spectrogram' = Done(compute_spectrogram(samples))
    /\ UNCHANGED <<build, songs, next_id, request, response, query, best_match, matches,
                   fingerprint1, fingerprint2, similarity, peaks, hashes, samples>>

NextSpectrogram == ComputeSpectrogram
SpecSpectrogram == InitSpectrogram /\ [][NextSpectrogram]_vars

\* C10: for N >= W samples the spectrogram has T = floor((N - W) / H) + 1 frames and
\* every frame k in 0..T-1 holds the magnitude spectrum of the W samples from k * H.
Framing ==
    (spectrogram # Idle /\ samples.len >= WINDOW_SIZE) =>
        LET T == (samples.len - WINDOW_SIZE) \div HOP_SIZE + 1
        IN  /\ Len(spectrogram.value) = T
            /\ \A k \in 0..(T - 1) :
                   spectrogram.value[k + 1] = Spectrum(samples.content, k * HOP_SIZE)

-----------------------------------------------------------------------------
(* main.rs: the handlers of POST /match and POST /add-song                 *)

EmptyBody == [empty |-> TRUE]
\* Ok(Json(body)) is status 200; Err(StatusCode) has no body
Response(status, body) == [answered |-> TRUE, status |-> status, body |-> body]
\* the handler panicked: the connection is closed and no response is written
Aborted == [answered |-> FALSE, status |-> 0, body |-> EmptyBody]

MatchResponse(m) ==
    IF m.some
    THEN [matched |-> TRUE, song_id |-> Some(m.value.id), title |-> Some(m.value.title),
          artist |-> Some(m.value.artist), confidence |-> Some(m.value.similarity)]
    ELSE [matched |-> FALSE, song_id |-> None, title |-> None, artist |-> None,
          confidence |-> None]

\* The clips requests carry.  Ten seconds at 44100 Hz are 441000 samples, 214
\* frames; 50 ms are 2205 samples, 551 after resampling.
Tone(bin, mag) == [b \in {bin} |-> mag]
At(frame, spectrum) == [start \in {frame * HOP_SIZE} |-> spectrum]
Clips ==
    [not_wav |-> [wav |-> FALSE, len |-> 0, content |-> Silence],
     empty |-> [wav |-> TRUE, len |-> 0, content |-> Silence],
     short |-> [wav |-> TRUE, len |-> 2205, content |-> At(0, Tone(40, 90))],
     silent |-> [wav |-> TRUE, len |-> TenSeconds, content |-> Silence],
     w1 |-> [wav |-> TRUE, len |-> TenSeconds,
             content |-> At(2, Tone(40, 90)) @@ At(4, Tone(80, 70)) @@ At(5, Tone(300, 60))],
     w2 |-> [wav |-> TRUE, len |-> TenSeconds,
             content |-> At(3, Tone(120, 80)) @@ At(6, Tone(200, 50))],
     w3 |-> [wav |-> TRUE, len |-> TenSeconds,
             content |-> At(2, Tone(40, 50)) @@ At(4, Tone(80, 90))]]
ClipNames == DOMAIN Clips

\* audio::decode_audio(audio_data)? then fingerprint::generate_fingerprint(..)?,
\* for each clip and build profile
Fingerprinted ==
    [p \in Builds |->
        [c \in ClipNames |->
            LET audio_samples == decode_audio(Clips[c])
            IN  IF audio_samples.ok
                THEN generate_fingerprint(audio_samples.value, p)
                ELSE audio_samples]]

\* store_ok: whether the query the store is sent succeeds
process_audio_match(rows, audio, store_ok, profile) ==
    LET fingerprint == Fingerprinted[profile][audio]
    IN  IF ~fingerprint.ok THEN fingerprint
        ELSE IF ~store_ok THEN Err("store")
        ELSE Ok(MatchResponse(find_match(rows, fingerprint.value)))

\* Database::add_song: the row inserted
add_song_row(id, title, artist, fingerprint) ==
    SongRecord(id, title, artist, to_string(fingerprint), fingerprint.duration)

process_add_song(audio, store_ok, profile) ==
    LET fingerprint == Fingerprinted[profile][audio]
    IN  IF ~fingerprint.ok THEN fingerprint
        ELSE IF ~store_ok THEN Err("store")
        ELSE fingerprint

\* the status of a failed process_audio_match / process_add_song
ErrorStatus(e) == 500

Failure(r) == IF r = Panicked THEN Aborted ELSE Response(ErrorStatus(r.error), EmptyBody)

MaxRows == 2

Labels == {[title |-> "T", artist |-> "A"], [title |-> "U", artist |-> "B"]}
Request(op, audio, title, artist, malformed, store_ok) ==
    [op |-> op, audio |-> audio, title |-> title, artist |-> artist,
     malformed |-> malformed, store_ok |-> store_ok]
MatchRequests ==
    {Request("match", c, "none", "none", FALSE, ok) : c \in ClipNames, ok \in BOOLEAN}
    \cup {Request("match", "none", "none", "none", FALSE, TRUE),
          Request("match", "w1", "none", "none", TRUE, TRUE)}
AddRequests ==
    {Request("add-song", c, l.title, l.artist, FALSE, ok) :
        c \in ClipNames, l \in Labels, ok \in BOOLEAN}
    \cup {Request("add-song", "none", "T", "A", FALSE, TRUE),
          Request("add-song", "w1", "none", "A", FALSE, TRUE),
          Request("add-song", "w1", "T", "none", FALSE, TRUE),
          Request("add-song", "w1", "T", "A", TRUE, TRUE)}

InitServer ==
    /\ build \in Builds
    /\ songs = <<>>
    /\ next_id = 1
    /\ request = Idle /\ response = Idle
    /\ MatcherIdle /\ SimilarityIdle /\ HasherIdle /\ SpectrogramIdle

\* POST /match
match_audio ==
    \E req \in MatchRequests :
        /\ request' = req
        /\ response' =
               IF req.malformed THEN Response(400, EmptyBody)
               ELSE IF req.audio = "none" THEN Response(400, EmptyBody)
               ELSE LET r == process_audio_match(songs, req.audio, req.store_ok, build)
                    IN  IF r.ok THEN Response(200, r.value) ELSE Failure(r)
        /\ UNCHANGED <<build, songs, next_id, query, best_match, matches,
                       fingerprint1, fingerprint2, similarity, peaks, hashes, samples,
                       spectrogram>>

\* POST /add-song
add_song ==
    \E req \in AddRequests :
        /\ Len(songs) < MaxRows
        /\ request' = req
        /\ IF req.malformed \/ req.audio = "none" \/ req.title = "none" \/ req.artist = "none"
           THEN /\ response' = Response(400, EmptyBody)
                /\ UNCHANGED <<songs, next_id>>
           ELSE LET r == process_add_song(req.audio, req.store_ok, build)
                IN  IF r.ok
                    THEN /\ songs' = Append(songs,
                                        add_song_row(next_id, req.title, req.artist, r.value))
                         /\ next_id' = next_id + 1
                         /\ response' = Response(200, [success |-> TRUE, song_id |-> next_id])
                    ELSE /\ response' = Failure(r)
                         /\ UNCHANGED <<songs, next_id>>
        /\ UNCHANGED <<build, query, best_match, matches,
                       fingerprint1, fingerprint2, similarity, peaks, hashes, samples,
                       spectrogram>>

NextServer == match_audio \/ add_song
SpecServer == InitServer /\ [][NextServer]_vars

\* a well-formed request that carries every field of its form
Complete(req) ==
    /\ ~req.malformed /\ req.audio # "none"
    /\ req.op = "add-song" => (req.title # "none" /\ req.artist # "none")
ResampledLen(c) == Clips[c].len \div (SOURCE_RATE \div SAMPLE_RATE)
IsTenSeconds(c) == Clips[c].wav /\ Clips[c].len = TenSeconds
IsTooShort(c) == Clips[c].wav /\ Clips[c].len > 0 /\ ResampledLen(c) < WINDOW_SIZE
One == [num |-> 1, den |-> 1]
Confidence95 == [num |-> 95, den |-> 100]

\* a step that identifies the clip the step before it ingested into the empty
\* table, the store answering
IdentifyAfterIngest ==
    /\ request # Idle /\ request.op = "add-song" /\ Complete(request)
    /\ response.answered /\ response.status = 200
    /\ Len(songs) = 1
    /\ request'.op = "match" /\ Complete(request') /\ request'.store_ok
    /\ request'.audio = request.audio
    /\ IsTenSeconds(request.audio)

IdentifiedAs(resp, title, artist) ==
    /\ resp.answered /\ resp.status = 200
    /\ resp.body.matched
    /\ resp.body.title = Some(title) /\ resp.body.artist = Some(artist)
    /\ RatGe(resp.body.confidence.value, Confidence95)

\* C1: after a 10 s clip is ingested with title T and artist A into a table holding
\* no other row, identifying the same bytes answers matched = true with T, A and
\* confidence >= 0.95.
RoundTripIdentification ==
    [][IdentifyAfterIngest => IdentifiedAs(response', request.title, request.artist)]_vars

\* C1 as amended: the same, for a clip whose fingerprint holds at least one
\* landmark hash; the confidence is then 1.0.
RoundTripWithHashes ==
    [][(IdentifyAfterIngest /\ Fingerprinted[build][request.audio].value.hashes # <<>>)
        => /\ IdentifiedAs(response', request.title, request.artist)
           /\ response'.body.song_id = Some(songs[1].id)
           /\ RatEq(response'.body.confidence.value, One)]_vars

\* the clip w1, ingested as (U, B) alone, was identified
RoundTripWitness ==
    /\ request # Idle /\ request.op = "match" /\ request.audio = "w1"
    /\ Len(songs) = 1 /\ songs[1].title = "U"
    /\ response.answered /\ response.status = 200 /\ response.body.matched
    /\ response.body.artist = Some("B")

\* C4: a request whose clip has fewer than 1024 samples after resampling is
\* rejected: it gets no normal match / no-match answer, and no row is stored for it.
ShortClipRejected ==
    /\ (request # Idle /\ Complete(request) /\ IsTooShort(request.audio))
           => (response.answered /\ response.status # 200)
    /\ \A i \in DOMAIN songs :
           songs[i].duration.num \div (SOURCE_RATE \div SAMPLE_RATE) >= WINDOW_SIZE

\* C5: for both routes, audio that fails to decode, decodes to no sample or is too
\* short is answered 400, and a 500 answers only a failure that is not the
\* client's input.
ErrorClassification ==
    (request # Idle /\ Complete(request) /\ request.store_ok) =>
        LET bad == \/ ~Clips[request.audio].wav
                   \/ Clips[request.audio].len = 0
                   \/ IsTooShort(request.audio)
        IN  /\ bad => (response.answered /\ response.status = 400)
            /\ (response.answered /\ response.status = 500) => ~bad

=============================================================================
